---- MODULE Spec2Model ----
(***************************************************************************)
(* Model of the go-btc-peers crawl engine: the client's worker goroutines  *)
(* (pkg/client workers), the per-connection message loop                   *)
(* (pkg/client/listner.go) and the channels between them.                  *)
(*                                                                         *)
(* Client.AddNodes, Node.Connect and the Client constructor are not part   *)
(* of the available sources; they are modelled from the specification      *)
(* (sections 4.1 and 4.3) and marked as such where they appear.            *)
(***************************************************************************)
EXTENDS Integers, Sequences, FiniteSets, TLC

\* ------------------------------------------------------------------ bounds
\* Number of distinct peers on the modelled network.
NumPeers == 3
\* Longest address list one addr/addrv2 message carries.
MaxBatch == 2
\* cfg.ConnectionsLimit: number of connector workers and work-queue capacity.
ConnectionsLimit == 2
\* Buffer sizes of nodeResCh and newAddrCh (made by the constructor).
ResChCap == 1
AddrChCap == 1
\* Address announcements the modelled peers send in one run.
MaxAddrMsgs == 2
\* Longest seed list the client is started with.
NumSeeds == 2
\* Largest ping/pong nonce, pings sent and pongs handled on one connection.
MaxNonce == 2
MaxPings == 2
MaxPongs == 3

Workers == 1..ConnectionsLimit
IPs == 1..NumPeers
Ports == {8333}
\* wire.NetAddress / wire.NetAddressV2 as far as the listener reads them.
NetAddrs == [IP : IPs, Port : Ports]

\* fmt.Sprintf("[%s]:%d", a.IP.String(), a.Port): the endpoint string, kept
\* as the tuple of the pieces the format writes.
Endpoint(a) == <<"[", a.IP, "]:", a.Port>>
Endpoints == {Endpoint(a) : a \in NetAddrs}

SeqsUpTo(S, n) == UNION {[1..k -> S] : k \in 1..n}
AddrLists == SeqsUpTo(NetAddrs, MaxBatch)
MsgKinds == {"addr", "addrv2"}
\* Nonces a pong can carry; a ping the client sends carries a non-zero one.
Nonces == 0..MaxNonce
\* Messages whose case of the type switch only logs ("other" is the default).
LogOnlyKinds ==
    {"version", "verack", "ping", "inv", "feefilter", "getheaders", "other"}
\* Read errors other than io.EOF: wire.ErrUnknownMessage and any other one.
ReadErrs == {"unknown", "decode"}

\* Buffer size of c.guiCh (made by the constructor).
GuiChCap == 1
\* Ticks of the publisher's ticker in one run.
MaxTicks == 2
\* The gui.IncomingData record before the first tick.
NoSnapshot ==
    [Connections |-> 0, NodesTotal |-> 0, NodesQueued |-> 0,
     NodesGood |-> 0, NodesDead |-> 0]

\* Size of the dashboard's FIFO (lenConnChart, lenNodesChart, lenLogs).
FifoLimit == 2
\* Values offered to the FIFO (0 is the zero value) and number of offers.
MaxVal == 2
MaxAdds == 4
FifoVals == 0..MaxVal
\* queueData{data: val}, and the zero queueData (data == nil) of a freshly
\* made q.data.
QueueData(val) == <<val>>
NilData == <<>>

\* Variant: the loop stops one address short.
BuildBatchShort(addrList) ==
    [i \in 1..(Len(addrList) - 1) |-> Endpoint(addrList[i])]

\* batch := make([]string, len(m.AddrList)); batch[i] = Sprintf(...)
BuildBatch(addrList) == [i \in 1..Len(addrList) |-> Endpoint(addrList[i])]

Range(s) == {s[i] : i \in 1..Len(s)}
Count(s, e) == Cardinality({i \in 1..Len(s) : s[i] = e})

RECURSIVE SumOver(_, _)
SumOver(f, S) ==
    IF S = {} THEN 0
    ELSE LET x == CHOOSE y \in S : TRUE IN f[x] + SumOver(f, S \ {x})

NoEndpoint == <<>>
\* The seed lists the client may be started with (AddNodes on the list).
SeedLists ==
    {[i \in 1..k |-> Endpoint([IP |-> i, Port |-> 8333])] : k \in 1..NumSeeds}

VARIABLES
    seedList,       \* the seed endpoints given at start
    ctxDone,        \* c.ctx cancelled
    nodes,          \* c.nodes: keys of the endpoint -> *Node map
    nodesNew,       \* c.nodesNew: slice used as the discovery queue
    queueCh,        \* c.queueCh: bounded work queue
    nodeResCh,      \* c.nodeResCh: handshake results
    newAddrCh,      \* c.newAddrCh / newNodesCh: discovery batches
    nodesGood,      \* c.nodesGood
    nodesDeadCnt,   \* c.nodesDeadCnt
    activeConns,    \* c.activeConns
    fpc, fn, fhdr,  \* feeder: position, held node, slice header it read
    lpc, lips, lhdr,\* discovery listener: position, rest of batch, header read
    lbase, lnew,    \* history: c.nodes when the batch came, its unknown endpoints
    lbatches,       \* history: batches the listener has received
    hpc,            \* result handler: position
    wpc, wn, wbatch, wtmp,  \* workers: position, node, batch, counter read
    handed,         \* history: times each endpoint was taken off queueCh
    returned,       \* history: times Connect returned for each endpoint
    failedOf,       \* history: times Connect failed for each endpoint
    announced,      \* history: endpoints announced in addr/addrv2 messages
    addrMsgs,       \* history: number of addr/addrv2 messages received
    pingNonce,      \* n.PingNonce of the node on the connection
    pingCount,      \* n.PingCount of the node on the connection
    pingsSent,      \* history: pings sent on the connection
    pongs,          \* history: pongs handled on the connection
    lastPong,       \* history: nonce of the last pong handled
    conn,           \* n.Conn of the node each worker holds: "nil" or "open"
    connReset,      \* the peer has reset the connection: every read fails
    lastLogged,     \* history: last message or read error the loop only logged
    peerWrites,     \* history: messages the message loop wrote to its peer
    upc,            \* snapshot publisher (wGuiUpdater): position
    usnap,          \* the gui.IncomingData record being sent
    guiCh,          \* c.guiCh: snapshots on their way to the dashboard
    ticks,          \* history: ticks the publisher has taken
    snapsSent,      \* history: snapshots sent on c.guiCh
    saved,          \* history: the lists storage.Save was called with
    saveErrs,       \* history: calls of storage.Save that failed
    qList, qData,   \* gui queue: q.list and its mirror q.data
    qHist,          \* history: values given to queue.add
    mList, mMirror, \* a list and mirror slice kept by updateDataList
    mHist,          \* history: values updateDataList has accepted
    mOffered        \* history: calls of updateDataList

vars == <<seedList, ctxDone, nodes, nodesNew, queueCh, nodeResCh, newAddrCh,
          nodesGood, nodesDeadCnt, activeConns, fpc, fn, fhdr,
          lpc, lips, lhdr, lbase, lnew, lbatches, hpc,
          wpc, wn, wbatch, wtmp, handed, returned, failedOf, announced,
          addrMsgs, pingNonce, pingCount, pingsSent, pongs, lastPong,
          conn, connReset, lastLogged, peerWrites,
          upc, usnap, guiCh, ticks, snapsSent, saved, saveErrs,
          qList, qData, qHist, mList, mMirror, mHist, mOffered>>

registryVars == <<nodes, nodesNew, nodesGood, nodesDeadCnt>>
chanVars == <<queueCh, nodeResCh, newAddrCh>>
feederVars == <<fpc, fn, fhdr>>
listenerVars == <<lpc, lips, lhdr, lbase, lnew, lbatches>>
workerVars == <<wpc, wn, wbatch, wtmp>>
histVars == <<handed, returned, failedOf, announced, addrMsgs>>
pingVars == <<pingNonce, pingCount, pingsSent, pongs, lastPong>>
dispVars == <<connReset, lastLogged, peerWrites>>
pubVars == <<upc, usnap, guiCh, ticks, snapsSent, saved, saveErrs>>
fifoVars == <<qList, qData, qHist, mList, mMirror, mHist, mOffered>>
sideVars == <<seedList, pubVars, fifoVars>>
restVars == <<pingVars, sideVars, dispVars>>
otherVars == <<restVars, conn>>

Init ==
    /\ ctxDone = FALSE
    /\ seedList \in SeedLists
    /\ nodes = Range(seedList)
    /\ nodesNew = seedList
    /\ queueCh = <<>>
    /\ nodeResCh = <<>>
    /\ newAddrCh = <<>>
    /\ nodesGood = <<>>
    /\ nodesDeadCnt = 0
    /\ activeConns = 0
    /\ fpc = "loop" /\ fn = NoEndpoint /\ fhdr = <<>>
    /\ lpc = "recv" /\ lips = <<>> /\ lhdr = <<>>
    /\ lbase = {} /\ lnew = {} /\ lbatches = 0
    /\ hpc = "recv"
    /\ wpc = [w \in Workers |-> "idle"]
    /\ wn = [w \in Workers |-> NoEndpoint]
    /\ wbatch = [w \in Workers |-> <<>>]
    /\ wtmp = [w \in Workers |-> 0]
    /\ handed = [e \in Endpoints |-> 0]
    /\ returned = [e \in Endpoints |-> 0]
    /\ failedOf = [e \in Endpoints |-> 0]
    /\ announced = {}
    /\ addrMsgs = 0
    /\ pingNonce = 0 /\ pingCount = 0
    /\ pingsSent = 0 /\ pongs = 0 /\ lastPong = 0
    /\ conn = [w \in Workers |-> "nil"]
    /\ connReset = [w \in Workers |-> FALSE]
    /\ lastLogged = [w \in Workers |-> "none"]
    /\ peerWrites = 0
    /\ upc = "wait" /\ usnap = NoSnapshot /\ guiCh = <<>>
    /\ ticks = 0 /\ snapsSent = 0 /\ saved = <<>> /\ saveErrs = 0
    /\ qList = <<>> /\ qData = [i \in 1..FifoLimit |-> NilData] /\ qHist = <<>>
    /\ mList = <<>> /\ mMirror = [i \in 1..FifoLimit |-> 0] /\ mHist = <<>>
    /\ mOffered = 0

\* -------------------------------------------------------------- cancellation
Cancel ==
    /\ ~ctxDone
    /\ ctxDone' = TRUE
    /\ UNCHANGED <<registryVars, chanVars, activeConns, feederVars,
                   listenerVars, hpc, workerVars, histVars, otherVars>>

\* ------------------------------------------------- Client.AddNodes (registry)
\* Where the listener goes after the endpoint at the head of lips is done.
AfterEndpoint(rest) == IF rest = <<>> THEN "recv" ELSE "add"
\* The batch's history is dropped when AddNodes returns.
BaseAfter(rest) == IF rest = <<>> THEN {} ELSE lbase
NewAfter(rest) == IF rest = <<>> THEN {} ELSE lnew

\* One iteration of AddNodes' loop over the batch: a known endpoint is
\* skipped; an unknown one gets a Node in c.nodes and the append to
\* c.nodesNew begins with reading the slice header.
AddNodesStep ==
    /\ lpc = "add"
    /\ LET e == Head(lips) IN
         IF e \in nodes
         THEN /\ lips' = Tail(lips)
              /\ lpc' = AfterEndpoint(Tail(lips))
              /\ lbase' = BaseAfter(Tail(lips))
              /\ lnew' = NewAfter(Tail(lips))
              /\ UNCHANGED <<nodes, lhdr>>
         ELSE /\ nodes' = nodes \cup {e}
              /\ lhdr' = nodesNew
              /\ lpc' = "append"
              /\ UNCHANGED <<lips, lbase, lnew>>
    /\ UNCHANGED <<ctxDone, nodesNew, nodesGood, nodesDeadCnt, chanVars,
                   activeConns, feederVars, lbatches, hpc, workerVars,
                   histVars, otherVars>>

\* c.nodesNew = append(c.nodesNew, n): the header read before is written
\* back one element longer. The feeder touches the same slice without any
\* lock, so the header may be stale by now.
AddNodesAppend ==
    /\ lpc = "append"
    /\ nodesNew' = Append(lhdr, Head(lips))
    /\ lhdr' = <<>>
    /\ lips' = Tail(lips)
    /\ lpc' = AfterEndpoint(Tail(lips))
    /\ lbase' = BaseAfter(Tail(lips))
    /\ lnew' = NewAfter(Tail(lips))
    /\ UNCHANGED <<ctxDone, nodes, nodesGood, nodesDeadCnt, chanVars,
                   activeConns, feederVars, lbatches, hpc, workerVars,
                   histVars, otherVars>>

\* ------------------------------------------------------ wNewAddrListner
\* case ips := <-c.newAddrCh: c.AddNodes(ips)
ListenerRecv ==
    /\ lpc = "recv"
    /\ newAddrCh # <<>>
    /\ lips' = Head(newAddrCh)
    /\ newAddrCh' = Tail(newAddrCh)
    /\ lpc' = AfterEndpoint(Head(newAddrCh))
    /\ lbase' = IF Head(newAddrCh) = <<>> THEN {} ELSE nodes
    /\ lnew' = Range(Head(newAddrCh)) \ nodes
    /\ lbatches' = lbatches + 1
    /\ UNCHANGED <<ctxDone, registryVars, queueCh, nodeResCh, activeConns,
                   feederVars, lhdr, hpc, workerVars, histVars, otherVars>>

\* case <-c.ctx.Done(): return
ListenerExit ==
    /\ lpc = "recv"
    /\ ctxDone
    /\ lpc' = "done"
    /\ UNCHANGED <<ctxDone, registryVars, chanVars, activeConns, feederVars,
                   lips, lhdr, lbase, lnew, lbatches, hpc, workerVars, histVars,
                   otherVars>>

\* --------------------------------------------------------- wNodesFeeder
\* case <-c.ctx.Done(): return   (the select has a default, so a cancelled
\* context is always seen at the top of the loop)
FeederExit ==
    /\ fpc = "loop"
    /\ ctxDone
    /\ fpc' = "done"
    /\ UNCHANGED <<ctxDone, registryVars, chanVars, activeConns, fn, fhdr,
                   listenerVars, hpc, workerVars, histVars, otherVars>>

\* default: if len(c.nodesNew) == 0 { time.Sleep(...); continue }
FeederSleep ==
    /\ fpc = "loop"
    /\ ~ctxDone
    /\ Len(nodesNew) = 0
    /\ UNCHANGED vars

\* n := c.nodesNew[0], and the read of the header for the reslice
FeederTake ==
    /\ fpc = "loop"
    /\ ~ctxDone
    /\ Len(nodesNew) # 0
    /\ fn' = nodesNew[1]
    /\ fhdr' = nodesNew
    /\ fpc' = "pop"
    /\ UNCHANGED <<ctxDone, registryVars, chanVars, activeConns,
                   listenerVars, hpc, workerVars, histVars, otherVars>>

\* c.nodesNew = c.nodesNew[1:]: the write of the resliced header
FeederPop ==
    /\ fpc = "pop"
    /\ nodesNew' = Tail(fhdr)
    /\ fhdr' = <<>>
    /\ fpc' = "send"
    /\ UNCHANGED <<ctxDone, nodes, nodesGood, nodesDeadCnt, chanVars,
                   activeConns, fn, listenerVars, hpc, workerVars, histVars,
                   otherVars>>

\* c.queueCh <- n: a plain send, blocks while the queue is full
FeederSend ==
    /\ fpc = "send"
    /\ Len(queueCh) < ConnectionsLimit
    /\ queueCh' = Append(queueCh, fn)
    /\ fn' = NoEndpoint
    /\ fpc' = "loop"
    /\ UNCHANGED <<ctxDone, registryVars, nodeResCh, newAddrCh, activeConns,
                   fhdr, listenerVars, hpc, workerVars, histVars, otherVars>>

\* -------------------------------------------------- wNodeResultsHandler
\* Variant: the result is received but not appended to c.nodesGood.
HandlerRecvDiscard ==
    /\ hpc = "recv"
    /\ nodeResCh # <<>>
    /\ nodeResCh' = Tail(nodeResCh)
    /\ UNCHANGED <<ctxDone, registryVars, queueCh, newAddrCh, activeConns,
                   feederVars, listenerVars, hpc, workerVars, histVars,
                   otherVars>>

\* case n := <-c.nodeResCh: c.nodesGood = append(c.nodesGood, n)
HandlerRecv ==
    /\ hpc = "recv"
    /\ nodeResCh # <<>>
    /\ nodesGood' = Append(nodesGood, Head(nodeResCh))
    /\ nodeResCh' = Tail(nodeResCh)
    /\ UNCHANGED <<ctxDone, nodes, nodesNew, nodesDeadCnt, queueCh, newAddrCh,
                   activeConns, feederVars, listenerVars, hpc, workerVars,
                   histVars, otherVars>>

\* case <-c.ctx.Done(): return
HandlerExit ==
    /\ hpc = "recv"
    /\ ctxDone
    /\ hpc' = "done"
    /\ UNCHANGED <<ctxDone, registryVars, chanVars, activeConns, feederVars,
                   listenerVars, workerVars, histVars, otherVars>>

\* ------------------------------------------------------ wNodesConnector
\* case <-c.ctx.Done(): return
WorkerExit(w) ==
    /\ wpc[w] = "idle"
    /\ ctxDone
    /\ wpc' = [wpc EXCEPT ![w] = "done"]
    /\ UNCHANGED <<ctxDone, registryVars, chanVars, activeConns, feederVars,
                   listenerVars, hpc, wn, wbatch, wtmp, histVars, otherVars>>

\* Variant: the worker takes the next endpoint without waiting for the
\* Connect call it is in (as if Connect were started with `go`).
WorkerDequeueAsync(w) ==
    /\ wpc[w] \in {"idle", "connect", "listen"}
    /\ queueCh # <<>>
    /\ wn' = [wn EXCEPT ![w] = Head(queueCh)]
    /\ queueCh' = Tail(queueCh)
    /\ activeConns' = activeConns + 1
    /\ handed' = [handed EXCEPT ![Head(queueCh)] = @ + 1]
    /\ wpc' = [wpc EXCEPT ![w] = "connect"]
    /\ UNCHANGED <<ctxDone, registryVars, nodeResCh, newAddrCh, feederVars,
                   listenerVars, hpc, wbatch, wtmp, returned, failedOf,
                   announced, addrMsgs, otherVars>>

\* case n := <-c.queueCh: atomic.AddInt32(&c.activeConns, 1); n.Connect(...)
\* The worker is back at its select only after Connect has returned.
WorkerDequeue(w) ==
    /\ wpc[w] = "idle"
    /\ queueCh # <<>>
    /\ wn' = [wn EXCEPT ![w] = Head(queueCh)]
    /\ queueCh' = Tail(queueCh)
    /\ activeConns' = activeConns + 1
    /\ handed' = [handed EXCEPT ![Head(queueCh)] = @ + 1]
    /\ wpc' = [wpc EXCEPT ![w] = "connect"]
    /\ UNCHANGED <<ctxDone, registryVars, nodeResCh, newAddrCh, feederVars,
                   listenerVars, hpc, wbatch, wtmp, returned, failedOf,
                   announced, addrMsgs, otherVars>>

\* Connect returned an error (dial error, timeout, handshake failure):
\* if err != nil { c.nodesDeadCnt++ } -- the read half of the increment.
WorkerConnectErr(w) ==
    /\ wpc[w] = "connect"
    /\ wtmp' = [wtmp EXCEPT ![w] = nodesDeadCnt]
    /\ failedOf' = [failedOf EXCEPT ![wn[w]] = @ + 1]
    /\ wpc' = [wpc EXCEPT ![w] = "deadwr"]
    /\ UNCHANGED <<ctxDone, registryVars, chanVars, activeConns, feederVars,
                   listenerVars, hpc, wn, wbatch, handed, returned, announced,
                   addrMsgs, otherVars>>

\* Variant: the error path goes back to the select without the decrement
\* of c.activeConns (as with a `continue` inside the if).
WorkerCountDeadNoRelease(w) ==
    /\ wpc[w] = "deadwr"
    /\ nodesDeadCnt' = wtmp[w] + 1
    /\ wtmp' = [wtmp EXCEPT ![w] = 0]
    /\ returned' = [returned EXCEPT ![wn[w]] = @ + 1]
    /\ wn' = [wn EXCEPT ![w] = NoEndpoint]
    /\ wpc' = [wpc EXCEPT ![w] = "idle"]
    /\ UNCHANGED <<ctxDone, nodes, nodesNew, nodesGood, chanVars, activeConns,
                   feederVars, listenerVars, hpc, wbatch, handed, failedOf,
                   announced, addrMsgs, otherVars>>

\* The write half of c.nodesDeadCnt++ (a plain int shared by all workers),
\* then atomic.AddInt32(&c.activeConns, -1) and back to the select.
WorkerCountDead(w) ==
    /\ wpc[w] = "deadwr"
    /\ nodesDeadCnt' = wtmp[w] + 1
    /\ wtmp' = [wtmp EXCEPT ![w] = 0]
    /\ activeConns' = activeConns - 1
    /\ returned' = [returned EXCEPT ![wn[w]] = @ + 1]
    /\ wn' = [wn EXCEPT ![w] = NoEndpoint]
    /\ wpc' = [wpc EXCEPT ![w] = "idle"]
    /\ UNCHANGED <<ctxDone, nodes, nodesNew, nodesGood, chanVars, feederVars,
                   listenerVars, hpc, wbatch, handed, failedOf, announced,
                   addrMsgs, otherVars>>

\* ------------------------------------------------- Node.Connect (success)
\* Handshake done: the node is reported on the result channel and the
\* message loop of connListen takes over the connection.
ConnectHandshakeOK(w) ==
    /\ wpc[w] = "connect"
    /\ Len(nodeResCh) < ResChCap
    /\ nodeResCh' = Append(nodeResCh, wn[w])
    /\ conn' = [conn EXCEPT ![w] = "open"]
    /\ wpc' = [wpc EXCEPT ![w] = "listen"]
    /\ UNCHANGED <<ctxDone, registryVars, queueCh, newAddrCh, activeConns,
                   feederVars, listenerVars, hpc, wn, wbatch, wtmp, histVars,
                   restVars>>

\* ------------------------------------------------------- Node.connListen
\* case *wire.MsgAddr / *wire.MsgAddrV2: the batch is built from AddrList.
ListenAddr(w, kind, addrList) ==
    /\ wpc[w] = "listen"
    /\ kind \in MsgKinds
    /\ addrMsgs < MaxAddrMsgs
    /\ addrMsgs' = addrMsgs + 1
    /\ wbatch' = [wbatch EXCEPT ![w] = BuildBatch(addrList)]
    /\ announced' =
         announced \cup {Endpoint(addrList[i]) : i \in 1..Len(addrList)}
    /\ wpc' = [wpc EXCEPT ![w] = "submit"]
    /\ UNCHANGED <<ctxDone, registryVars, chanVars, activeConns, feederVars,
                   listenerVars, hpc, wn, wtmp, handed, returned, failedOf, otherVars>>

\* Variant: the send gives up instead of blocking (a select with default),
\* so the batch is dropped when the channel cannot take it.
ListenSubmitOrDrop(w) ==
    /\ wpc[w] = "submit"
    /\ newAddrCh' = IF Len(newAddrCh) < AddrChCap
                     THEN Append(newAddrCh, wbatch[w]) ELSE newAddrCh
    /\ wbatch' = [wbatch EXCEPT ![w] = <<>>]
    /\ wpc' = [wpc EXCEPT ![w] = "listen"]
    /\ UNCHANGED <<ctxDone, registryVars, queueCh, nodeResCh, activeConns,
                   feederVars, listenerVars, hpc, wn, wtmp, histVars, otherVars>>

\* newNodesCh <- batch: a plain send, blocks while nobody can take it
ListenSubmit(w) ==
    /\ wpc[w] = "submit"
    /\ Len(newAddrCh) < AddrChCap
    /\ newAddrCh' = Append(newAddrCh, wbatch[w])
    /\ wbatch' = [wbatch EXCEPT ![w] = <<>>]
    /\ wpc' = [wpc EXCEPT ![w] = "listen"]
    /\ UNCHANGED <<ctxDone, registryVars, queueCh, nodeResCh, activeConns,
                   feederVars, listenerVars, hpc, wn, wtmp, histVars, otherVars>>

\* Any message or decode error that the loop only logs (version, verack,
\* ping, inv, feefilter, getheaders, unknown message, other read errors).
ListenLogOnly(w) ==
    /\ wpc[w] = "listen"
    /\ UNCHANGED vars

\* Variant: an incoming ping is answered with a pong.
ListenLogMsgReplyPong(w, kind) ==
    /\ wpc[w] = "listen"
    /\ ~connReset[w]
    /\ kind \in LogOnlyKinds
    /\ lastLogged' = [lastLogged EXCEPT ![w] = kind]
    /\ peerWrites' = IF kind = "ping" THEN peerWrites + 1 ELSE peerWrites
    /\ UNCHANGED <<ctxDone, registryVars, chanVars, activeConns, feederVars,
                   listenerVars, hpc, workerVars, histVars, pingVars,
                   sideVars, connReset, conn>>

\* case *wire.MsgVersion, MsgVerAck, MsgPing, MsgInv, MsgFeeFilter,
\* MsgGetHeaders, default: the message is logged, nothing else happens, the
\* loop reads on.
ListenLogMsg(w, kind) ==
    /\ wpc[w] = "listen"
    /\ ~connReset[w]
    /\ kind \in LogOnlyKinds
    /\ lastLogged' = [lastLogged EXCEPT ![w] = kind]
    /\ UNCHANGED <<ctxDone, registryVars, chanVars, activeConns, feederVars,
                   listenerVars, hpc, workerVars, histVars, pingVars,
                   sideVars, connReset, peerWrites, conn>>

\* The error a failing read returns: on a reset connection every read
\* fails with the reset error, otherwise the peer sent something the codec
\* rejects.
ReadErrOf(w, err) == IF connReset[w] THEN "reset" ELSE err

\* err != nil, err != io.EOF: wire.ErrUnknownMessage or any other read
\* error; the loop is at the log calls of that branch.
ListenReadErr(w, err) ==
    /\ wpc[w] = "listen"
    /\ err \in ReadErrs
    /\ lastLogged' = [lastLogged EXCEPT ![w] = ReadErrOf(w, err)]
    /\ wpc' = [wpc EXCEPT ![w] = "errlog"]
    /\ UNCHANGED <<ctxDone, registryVars, chanVars, activeConns, feederVars,
                   listenerVars, hpc, wn, wbatch, wtmp, histVars, pingVars,
                   sideVars, connReset, peerWrites, conn>>

\* Variant: after the log calls the loop returns, as it does on io.EOF.
ListenErrReturn(w) ==
    /\ wpc[w] = "errlog"
    /\ conn' = [conn EXCEPT ![w] = "nil"]
    /\ activeConns' = activeConns - 1
    /\ returned' = [returned EXCEPT ![wn[w]] = @ + 1]
    /\ wn' = [wn EXCEPT ![w] = NoEndpoint]
    /\ wpc' = [wpc EXCEPT ![w] = "idle"]
    /\ UNCHANGED <<ctxDone, registryVars, chanVars, feederVars, listenerVars,
                   hpc, wbatch, wtmp, handed, failedOf, announced, addrMsgs,
                   pingVars, sideVars, dispVars>>

\* continue: the error is logged, the loop goes on to the next read.
ListenErrContinue(w) ==
    /\ wpc[w] = "errlog"
    /\ wpc' = [wpc EXCEPT ![w] = "listen"]
    /\ UNCHANGED <<ctxDone, registryVars, chanVars, activeConns, feederVars,
                   listenerVars, hpc, wn, wbatch, wtmp, histVars, pingVars,
                   sideVars, dispVars, conn>>

\* The peer resets the connection: from now on wire.ReadMessageN fails at
\* once with an error that is not io.EOF.
PeerResets(w) ==
    /\ wpc[w] \in {"listen", "errlog", "submit"}
    /\ ~connReset[w]
    /\ connReset' = [connReset EXCEPT ![w] = TRUE]
    /\ UNCHANGED <<ctxDone, registryVars, chanVars, activeConns, feederVars,
                   listenerVars, hpc, workerVars, histVars, pingVars,
                   sideVars, lastLogged, peerWrites, conn>>

\* The keepalive ping sent on the connection: its nonce becomes the
\* outstanding n.PingNonce.
SendPing(w, nonce) ==
    /\ wpc[w] \in {"listen", "errlog", "submit"}
    /\ nonce # 0
    /\ pingsSent < MaxPings
    /\ pingNonce' = nonce
    /\ pingsSent' = pingsSent + 1
    /\ UNCHANGED <<ctxDone, registryVars, chanVars, activeConns, feederVars,
                   listenerVars, hpc, workerVars, histVars, pingCount, pongs,
                   lastPong, sideVars, dispVars, conn>>

\* Variant: a matching pong is counted but the outstanding nonce is kept.
ListenPongKeepNonce(w, nonce) ==
    /\ wpc[w] = "listen"
    /\ pongs < MaxPongs
    /\ pongs' = pongs + 1
    /\ lastPong' = nonce
    /\ pingCount' = IF nonce = pingNonce THEN pingCount + 1 ELSE pingCount
    /\ UNCHANGED <<ctxDone, registryVars, chanVars, activeConns, feederVars,
                   listenerVars, hpc, workerVars, histVars, pingNonce,
                   pingsSent, sideVars, dispVars, conn>>

\* case *wire.MsgPong: if m.Nonce == n.PingNonce { n.PingCount++;
\* n.PingNonce = 0 } else { log }
ListenPong(w, nonce) ==
    /\ wpc[w] = "listen"
    /\ pongs < MaxPongs
    /\ pongs' = pongs + 1
    /\ lastPong' = nonce
    /\ IF nonce = pingNonce
       THEN /\ pingCount' = pingCount + 1
            /\ pingNonce' = 0
       ELSE UNCHANGED <<pingCount, pingNonce>>
    /\ UNCHANGED <<ctxDone, registryVars, chanVars, activeConns, feederVars,
                   listenerVars, hpc, workerVars, histVars, pingsSent,
                   sideVars, dispVars, conn>>

\* err == io.EOF: connListen returns (the deferred n.Conn = nil runs),
\* Connect returns nil, the worker takes the err == nil path:
\* atomic.AddInt32(&c.activeConns, -1).
ListenEOF(w) ==
    /\ wpc[w] = "listen"
    /\ conn' = [conn EXCEPT ![w] = "nil"]
    /\ activeConns' = activeConns - 1
    /\ returned' = [returned EXCEPT ![wn[w]] = @ + 1]
    /\ wn' = [wn EXCEPT ![w] = NoEndpoint]
    /\ wpc' = [wpc EXCEPT ![w] = "idle"]
    /\ UNCHANGED <<ctxDone, registryVars, chanVars, feederVars, listenerVars,
                   hpc, wbatch, wtmp, handed, failedOf, announced, addrMsgs,
                   restVars>>

\* ---------------------------------------------------------- wGuiUpdater
\* gui.IncomingData{Connections: c.ActiveConns(), NodesTotal: len(c.nodes),
\* NodesQueued: len(c.nodesNew), NodesGood: len(c.nodesGood),
\* NodesDead: c.nodesDeadCnt}
Snapshot ==
    [Connections |-> activeConns, NodesTotal |-> Cardinality(nodes),
     NodesQueued |-> Len(nodesNew), NodesGood |-> Len(nodesGood),
     NodesDead |-> nodesDeadCnt]

\* case <-c.ctx.Done(): return
PublisherExit ==
    /\ upc = "wait"
    /\ ctxDone
    /\ upc' = "done"
    /\ UNCHANGED <<ctxDone, registryVars, chanVars, activeConns, feederVars,
                   listenerVars, hpc, workerVars, histVars, pingVars,
                   dispVars, conn, seedList, fifoVars, usnap, guiCh, ticks,
                   snapsSent, saved, saveErrs>>

\* case <-ticker.C: the counts are read and the record is assembled
PublisherTick ==
    /\ upc = "wait"
    /\ ticks < MaxTicks
    /\ ticks' = ticks + 1
    /\ usnap' = Snapshot
    /\ upc' = "send"
    /\ UNCHANGED <<ctxDone, registryVars, chanVars, activeConns, feederVars,
                   listenerVars, hpc, workerVars, histVars, pingVars,
                   dispVars, conn, seedList, fifoVars, guiCh, snapsSent,
                   saved, saveErrs>>

\* c.guiCh <- gui.IncomingData{...}: a plain send
PublisherSend ==
    /\ upc = "send"
    /\ Len(guiCh) < GuiChCap
    /\ guiCh' = Append(guiCh, usnap)
    /\ snapsSent' = snapsSent + 1
    /\ upc' = "test"
    /\ UNCHANGED <<ctxDone, registryVars, chanVars, activeConns, feederVars,
                   listenerVars, hpc, workerVars, histVars, pingVars,
                   dispVars, conn, seedList, fifoVars, usnap, ticks, saved,
                   saveErrs>>

\* if len(c.nodesGood) > 0 { ... }: otherwise the tick is over
PublisherTest ==
    /\ upc = "test"
    /\ upc' = IF Len(nodesGood) > 0 THEN "save" ELSE "wait"
    /\ UNCHANGED <<ctxDone, registryVars, chanVars, activeConns, feederVars,
                   listenerVars, hpc, workerVars, histVars, pingVars,
                   dispVars, conn, seedList, fifoVars, usnap, guiCh, ticks,
                   snapsSent, saved, saveErrs>>

\* Variant: a failed save ends the publisher (return instead of continue).
PublisherSaveStopOnErr(ok) ==
    /\ upc = "save"
    /\ saved' = Append(saved, nodesGood)
    /\ saveErrs' = IF ok THEN saveErrs ELSE saveErrs + 1
    /\ upc' = IF ok THEN "wait" ELSE "done"
    /\ UNCHANGED <<ctxDone, registryVars, chanVars, activeConns, feederVars,
                   listenerVars, hpc, workerVars, histVars, pingVars,
                   dispVars, conn, seedList, fifoVars, usnap, guiCh, ticks,
                   snapsSent>>

\* err := storage.Save(path, c.nodesGood); if err != nil { log; continue }
\* Either way the loop is back at its select.
PublisherSave(ok) ==
    /\ upc = "save"
    /\ saved' = Append(saved, nodesGood)
    /\ saveErrs' = IF ok THEN saveErrs ELSE saveErrs + 1
    /\ upc' = "wait"
    /\ UNCHANGED <<ctxDone, registryVars, chanVars, activeConns, feederVars,
                   listenerVars, hpc, workerVars, histVars, pingVars,
                   dispVars, conn, seedList, fifoVars, usnap, guiCh, ticks,
                   snapsSent>>

\* The dashboard takes a snapshot off c.guiCh.
GuiRecv ==
    /\ guiCh # <<>>
    /\ guiCh' = Tail(guiCh)
    /\ UNCHANGED <<ctxDone, registryVars, chanVars, activeConns, feederVars,
                   listenerVars, hpc, workerVars, histVars, pingVars,
                   dispVars, conn, seedList, fifoVars, upc, usnap, ticks,
                   snapsSent, saved, saveErrs>>

\* ------------------------------------------------ dashboard FIFO (gui)
\* l.PushBack(val); if l.Len() > limit { l.Remove(l.Front()) }
PushTrim(l, val, limit) ==
    LET pushed == Append(l, val)
    IN  IF Len(pushed) > limit THEN Tail(pushed) ELSE pushed

\* Variant: the copy fills the mirror from its front (idx := i).
RECURSIVE CopyFront(_, _, _, _)
CopyFront(l, mirror, limit, i) ==
    IF i >= Len(l) \/ i >= limit \/ i >= Len(mirror) THEN mirror
    ELSE CopyFront(l, [mirror EXCEPT ![i + 1] = l[Len(l) - i]], limit, i + 1)

\* for e := l.Back(); e != nil; e = e.Prev() { if i >= limit { break };
\* idx := limit - 1 - i; if idx >= len(mirror) { break };
\* mirror[idx] = e.Value; i++ }   (mirror is indexed from 1 here)
RECURSIVE CopyBack(_, _, _, _)
CopyBack(l, mirror, limit, i) ==
    IF i >= Len(l) \/ i >= limit \/ limit - 1 - i >= Len(mirror) THEN mirror
    ELSE CopyBack(l, [mirror EXCEPT ![limit - i] = l[Len(l) - i]],
                  limit, i + 1)

\* q.add(queueData{data: val}): every value is taken, the zero value too
QueueAdd(val) ==
    /\ Len(qHist) < MaxAdds
    /\ qList' = PushTrim(qList, QueueData(val), FifoLimit)
    /\ qData' = CopyBack(PushTrim(qList, QueueData(val), FifoLimit), qData,
                         FifoLimit, 0)
    /\ qHist' = Append(qHist, QueueData(val))
    /\ UNCHANGED <<ctxDone, registryVars, chanVars, activeConns, feederVars,
                   listenerVars, hpc, workerVars, histVars, pingVars,
                   dispVars, conn, seedList, pubVars, mList, mMirror, mHist,
                   mOffered>>

\* updateDataList(l, val, mirror, limit): the zero value (0, "") returns at
\* once, any other value is pushed and mirrored
UpdateDataList(val) ==
    /\ mOffered < MaxAdds
    /\ mOffered' = mOffered + 1
    /\ IF val = 0
       THEN UNCHANGED <<mList, mMirror, mHist>>
       ELSE /\ mList' = PushTrim(mList, val, FifoLimit)
            /\ mMirror' = CopyBack(PushTrim(mList, val, FifoLimit), mMirror,
                                   FifoLimit, 0)
            /\ mHist' = Append(mHist, val)
    /\ UNCHANGED <<ctxDone, registryVars, chanVars, activeConns, feederVars,
                   listenerVars, hpc, workerVars, histVars, pingVars,
                   dispVars, conn, seedList, pubVars, qList, qData, qHist>>

\* ---------------------------------------------------------- specification
Next ==
    \/ Cancel
    \/ AddNodesStep
    \/ AddNodesAppend
    \/ ListenerRecv
    \/ ListenerExit
    \/ FeederExit
    \/ FeederSleep
    \/ FeederTake
    \/ FeederPop
    \/ FeederSend
    \/ HandlerRecv
    \/ HandlerExit
    \/ \E w \in Workers : WorkerExit(w)
    \/ \E w \in Workers : WorkerDequeue(w)
    \/ \E w \in Workers : WorkerConnectErr(w)
    \/ \E w \in Workers : WorkerCountDead(w)
    \/ \E w \in Workers : ConnectHandshakeOK(w)
    \/ \E w \in Workers, k \in MsgKinds, al \in AddrLists : ListenAddr(w, k, al)
    \/ \E w \in Workers : ListenSubmit(w)
    \/ \E w \in Workers : ListenLogOnly(w)
    \/ \E w \in Workers : ListenEOF(w)

Spec == Init /\ [][Next]_vars


\* ------------------------------------------- one connection's message loop
\* The first seed is connected: the feeder has passed it on, a worker has
\* taken it, the handshake is done and the result handler has recorded it.
InitListen ==
    /\ seedList = <<Endpoint([IP |-> 1, Port |-> 8333])>>
    /\ ctxDone = FALSE
    /\ nodes = Range(seedList)
    /\ nodesNew = <<>>
    /\ queueCh = <<>>
    /\ nodeResCh = <<>>
    /\ newAddrCh = <<>>
    /\ nodesGood = seedList
    /\ nodesDeadCnt = 0
    /\ activeConns = 1
    /\ fpc = "loop" /\ fn = NoEndpoint /\ fhdr = <<>>
    /\ lpc = "recv" /\ lips = <<>> /\ lhdr = <<>>
    /\ lbase = {} /\ lnew = {} /\ lbatches = 0
    /\ hpc = "recv"
    /\ wpc = [w \in Workers |-> IF w = 1 THEN "listen" ELSE "idle"]
    /\ wn = [w \in Workers |-> IF w = 1 THEN seedList[1] ELSE NoEndpoint]
    /\ wbatch = [w \in Workers |-> <<>>]
    /\ wtmp = [w \in Workers |-> 0]
    /\ handed = [e \in Endpoints |-> IF e = seedList[1] THEN 1 ELSE 0]
    /\ returned = [e \in Endpoints |-> 0]
    /\ failedOf = [e \in Endpoints |-> 0]
    /\ announced = {}
    /\ addrMsgs = 0
    /\ pingNonce = 0 /\ pingCount = 0
    /\ pingsSent = 0 /\ pongs = 0 /\ lastPong = 0
    /\ conn = [w \in Workers |-> IF w = 1 THEN "open" ELSE "nil"]
    /\ connReset = [w \in Workers |-> FALSE]
    /\ lastLogged = [w \in Workers |-> "none"]
    /\ peerWrites = 0
    /\ upc = "wait" /\ usnap = NoSnapshot /\ guiCh = <<>>
    /\ ticks = 0 /\ snapsSent = 0 /\ saved = <<>> /\ saveErrs = 0
    /\ qList = <<>> /\ qData = [i \in 1..FifoLimit |-> NilData] /\ qHist = <<>>
    /\ mList = <<>> /\ mMirror = [i \in 1..FifoLimit |-> 0] /\ mHist = <<>>
    /\ mOffered = 0

NextListen ==
    \/ \E w \in Workers, nonce \in Nonces : SendPing(w, nonce)
    \/ \E w \in Workers, nonce \in Nonces : ListenPong(w, nonce)
    \/ \E w \in Workers, k \in MsgKinds, al \in AddrLists : ListenAddr(w, k, al)
    \/ \E w \in Workers : ListenSubmit(w)
    \/ \E w \in Workers : ListenLogOnly(w)
    \/ \E w \in Workers : ListenEOF(w)
    \/ ListenerRecv
    \/ AddNodesStep
    \/ AddNodesAppend

SpecListen == InitListen /\ [][NextListen]_vars

\* The keepalive exchange alone on that connection: pings sent, pongs and
\* log-only messages received, until the peer closes.
NextKeepalive ==
    \/ \E w \in Workers, nonce \in Nonces : SendPing(w, nonce)
    \/ \E w \in Workers, nonce \in Nonces : ListenPong(w, nonce)
    \/ \E w \in Workers : ListenLogOnly(w)
    \/ \E w \in Workers : ListenEOF(w)

SpecKeepalive == InitListen /\ [][NextKeepalive]_vars

\* Connections whose reads still deliver what the peer sends.
LiveConns == {w \in Workers : ~connReset[w]}

\* The message loop of that connection case by case: every kind of message
\* and of read error, the peer resetting or closing the connection.
NextDispatch ==
    \/ \E w \in Workers, nonce \in Nonces : SendPing(w, nonce)
    \/ \E w \in LiveConns, nonce \in Nonces : ListenPong(w, nonce)
    \/ \E w \in Workers, kind \in LogOnlyKinds : ListenLogMsg(w, kind)
    \/ \E w \in Workers, err \in ReadErrs : ListenReadErr(w, err)
    \/ \E w \in Workers : ListenErrContinue(w)
    \/ \E w \in Workers : PeerResets(w)
    \/ \E w \in LiveConns, k \in MsgKinds, al \in AddrLists :
          ListenAddr(w, k, al)
    \/ \E w \in Workers : ListenSubmit(w)
    \/ \E w \in LiveConns : ListenEOF(w)

SpecDispatch == InitListen /\ [][NextDispatch]_vars

\* The same loop with its goroutine scheduled fairly: a read on a reset
\* connection fails at once, a logged error is followed by the next
\* iteration, a batch that can be sent is sent, and a peer whose connection
\* is not reset closes it in the end.
SpecDispatchFair ==
    /\ SpecDispatch
    /\ WF_vars(\E w \in Workers \ LiveConns, err \in ReadErrs :
                  ListenReadErr(w, err))
    /\ WF_vars(\E w \in Workers : ListenErrContinue(w))
    /\ WF_vars(\E w \in Workers : ListenSubmit(w))
    /\ WF_vars(\E w \in LiveConns : ListenEOF(w))

\* The publisher beside a crawl of the seed list: endpoints are fed,
\* attempted and classified while the ticker fires.
NextPublisher ==
    \/ Cancel
    \/ PublisherExit
    \/ PublisherTick
    \/ PublisherSend
    \/ PublisherTest
    \/ \E ok \in BOOLEAN : PublisherSave(ok)
    \/ GuiRecv
    \/ FeederTake
    \/ FeederPop
    \/ FeederSend
    \/ HandlerRecv
    \/ \E w \in Workers : WorkerDequeue(w)
    \/ \E w \in Workers : WorkerConnectErr(w)
    \/ \E w \in Workers : WorkerCountDead(w)
    \/ \E w \in Workers : ConnectHandshakeOK(w)
    \/ \E w \in Workers : ListenEOF(w)

SpecPublisher == Init /\ [][NextPublisher]_vars

\* The dashboard's two FIFOs fed with arbitrary values.
NextGui ==
    \/ \E val \in FifoVals : QueueAdd(val)
    \/ \E val \in FifoVals : UpdateDataList(val)

SpecGui == Init /\ [][NextGui]_vars

\* ------------------------------------------------------------ node states
\* Endpoints taken off the work queue whose Connect has not returned yet.
ConnectingCount ==
    SumOver([e \in Endpoints |-> handed[e] - returned[e]], Endpoints)

InSeq(e, s) == \E i \in 1..Len(s) : s[i] = e

\* ------------------------------------------------------------------ claims
\* C1: at every reachable state the number of endpoints that are Connecting
\* (taken off the work queue, Connect not yet returned) is at most the
\* configured connection limit.
C1_ConnectingAtMostLimit == ConnectingCount <= ConnectionsLimit

\* C1 witness: the limit is reached with two different endpoints being
\* connected at once.
C1_Witness ==
    /\ ConnectingCount = ConnectionsLimit
    /\ \A w \in Workers : wpc[w] \in {"connect", "listen"}
    /\ \A v, w \in Workers : v # w => wn[v] # wn[w]

\* Endpoints of batches that are announced but not yet through AddNodes.
InFlight ==
    UNION ( {Range(wbatch[w]) : w \in {v \in Workers : wpc[v] = "submit"}}
            \cup {Range(newAddrCh[i]) : i \in 1..Len(newAddrCh)}
            \cup {Range(lips)} )

AllBatchesProcessed ==
    /\ newAddrCh = <<>>
    /\ \A w \in Workers : wpc[w] # "submit"
    /\ lpc \in {"recv", "done"}

\* Places of the pipeline an endpoint occupies or has passed through.
TimesQueued(e) ==
    Count(nodesNew, e) + (IF fpc = "send" /\ fn = e THEN 1 ELSE 0)
    + Count(queueCh, e) + handed[e]

Classified(e) ==
    InSeq(e, nodeResCh) \/ InSeq(e, nodesGood) \/ failedOf[e] > 0

\* AddNodes returns in this step.
BatchCompletes == lpc \in {"add", "append"} /\ lpc' = "recv"

AllExited ==
    /\ fpc = "done" /\ lpc = "done" /\ hpc = "done"
    /\ \A w \in Workers : wpc[w] = "done"

C3_RegistryIsUnionOfAnnounced ==
    /\ (Range(seedList) \cup (announced \ InFlight)) \subseteq nodes
    /\ nodes \subseteq (Range(seedList) \cup announced)
    /\ AllBatchesProcessed => nodes = Range(seedList) \cup announced

\* C3 witness: two live connections have announced overlapping endpoint
\* sets and both batches are waiting to be submitted at the same time.
C3_Witness ==
    \E v, w \in Workers :
        /\ v # w
        /\ wpc[v] = "submit" /\ wpc[w] = "submit"
        /\ Range(wbatch[v]) \cap Range(wbatch[w]) # {}
        /\ Range(wbatch[v]) # Range(wbatch[w])
        /\ ~(Range(wbatch[v]) \cup Range(wbatch[w]) \subseteq nodes)

\* C4: when the peer closes the connection after a completed handshake, the
\* connection attempt leaves the dead count as it is and the endpoint is on
\* its way to, or already in, the good set.
C4_HandshakeThenCloseIsGood ==
    [][ \A w \in Workers :
          (wpc[w] = "listen" /\ wpc'[w] = "idle") =>
              /\ nodesDeadCnt' = nodesDeadCnt
              /\ InSeq(wn[w], nodeResCh') \/ InSeq(wn[w], nodesGood') ]_vars

\* C4 witness: an endpoint whose peer closed right after the handshake (no
\* message was received at all) is in the good set and nothing is dead.
C4_Witness ==
    \E e \in Endpoints :
        /\ handed[e] = 1 /\ returned[e] = 1 /\ failedOf[e] = 0
        /\ InSeq(e, nodesGood)
        /\ addrMsgs = 0
        /\ nodesDeadCnt = 0

\* C5: when the peer refuses the connection, that attempt raises the dead
\* count by exactly one and leaves the good set unchanged.
C5_RefusedCountsOneDead ==
    [][ \A w \in Workers :
          (wpc[w] = "deadwr" /\ wpc'[w] = "idle") =>
              /\ nodesDeadCnt' = nodesDeadCnt + 1
              /\ nodesGood' = nodesGood ]_vars

\* C6: after cancellation every task exits and the active-connection
\* counter returns to zero: a cancelled run never comes to rest with a task
\* still blocked.
C6_CancelStopsAllTasks ==
    ctxDone => (ENABLED Next \/ (AllExited /\ activeConns = 0))

\* C7: a pong whose nonce equals the outstanding PingNonce raises PingCount
\* by exactly one and clears PingNonce; a pong with another nonce leaves
\* both unchanged.
C7_PongUpdatesPingState ==
    [][ pongs' = pongs + 1 =>
          IF lastPong' = pingNonce
          THEN pingCount' = pingCount + 1 /\ pingNonce' = 0
          ELSE pingCount' = pingCount /\ pingNonce' = pingNonce ]_vars

\* C7 witness: one ping was sent; of two pongs one did not match and was
\* ignored, the last one matched, was counted and cleared the nonce.
C7_Witness ==
    /\ pingsSent = 1 /\ pongs = 2
    /\ lastPong # 0
    /\ pingCount = 1 /\ pingNonce = 0

\* C8: an addr/addrv2 message becomes one batch holding exactly the
\* announced endpoints; a batch of k unknown endpoints makes exactly k new
\* nodes; and no endpoint is good or dead before a worker has taken it for a
\* connection attempt.
C8_AnnouncedBecomeDiscovered ==
    [][ /\ \A w \in Workers :
             (wpc[w] = "listen" /\ wpc'[w] = "submit") =>
                 /\ announced' = announced \cup Range(wbatch'[w])
                 /\ addrMsgs' = addrMsgs + 1
        /\ addrMsgs' = Cardinality({w \in Workers : wpc'[w] = "submit"})
                       + Len(newAddrCh') + lbatches'
        /\ BatchCompletes =>
             /\ nodes' \ lbase = lnew
             /\ Cardinality(nodes') = Cardinality(lbase) + Cardinality(lnew)
             /\ \A e \in lnew : Classified(e)' => handed'[e] > 0
        /\ \A e \in Endpoints : Classified(e)' => handed'[e] > 0 ]_vars

\* C8 witness: a message announcing two unknown endpoints has been
\* processed; both are known now, still waiting in the discovery queue,
\* neither good nor dead.
C8_Witness ==
    /\ addrMsgs = 1 /\ lbatches = 1 /\ lpc = "recv"
    /\ Cardinality(announced \ Range(seedList)) = 2
    /\ \A e \in announced \ Range(seedList) :
          /\ e \in nodes
          /\ InSeq(e, nodesNew)
          /\ handed[e] = 0
          /\ ~Classified(e)

\* C9: the dead count equals the number of connection attempts that failed
\* (no increment of a worker is lost or doubled).
C9_DeadCountIsFailedAttempts ==
    (\A w \in Workers : wpc[w] # "deadwr") =>
        nodesDeadCnt = SumOver(failedOf, Endpoints)

\* C10: no endpoint is handed to a worker more than once, none is
\* classified more than once, none is both good and dead.
C10_OneWayNodeStates ==
    \A e \in Endpoints :
        /\ handed[e] <= 1
        /\ Count(nodesGood, e) + Count(nodeResCh, e) <= 1
        /\ failedOf[e] <= 1
        /\ ~(failedOf[e] > 0 /\ (InSeq(e, nodesGood) \/ InSeq(e, nodeResCh)))
        /\ TimesQueued(e) <= 1

\* No registry operation is half applied: AddNodes is not inside a batch,
\* the feeder is not between reading and popping, no worker is inside its
\* dead-count increment and no handshake result waits for the handler.
Quiescent ==
    /\ lpc \in {"recv", "done"}
    /\ fpc # "pop"
    /\ \A w \in Workers : wpc[w] # "deadwr"
    /\ nodeResCh = <<>>

\* Endpoints still Discovered (in c.nodesNew), Queued (held by the feeder
\* for its send, or in c.queueCh) or Connecting (a worker is in Connect
\* before the handshake outcome).
PendingNodes ==
    Range(nodesNew)
    \cup (IF fpc = "send" THEN {fn} ELSE {})
    \cup Range(queueCh)
    \cup {wn[w] : w \in {v \in Workers : wpc[v] = "connect"}}

\* C11: at every quiescent state the number of known nodes equals the size
\* of the good set plus the dead count plus the number of nodes that are
\* still Discovered, Queued or Connecting.
C11_NodeCountBalance ==
    Quiescent =>
        Cardinality(nodes) =
            Len(nodesGood) + nodesDeadCnt + Cardinality(PendingNodes)

\* Workers between the increment of c.activeConns and its decrement.
InAttempt ==
    {w \in Workers :
        wpc[w] \in {"connect", "deadwr", "listen", "errlog", "submit"}}

\* C12: the active-connection counter equals the number of workers that are
\* inside a connection attempt (one increment on taking an endpoint, one
\* decrement when Connect has returned, with or without error), so it stays
\* within 0..ConnectionsLimit.
C12_ActiveConnsCountsAttempts ==
    /\ activeConns = Cardinality(InAttempt)
    /\ activeConns \in 0..ConnectionsLimit

\* C12 witness: attempts have ended on the error path and on the success
\* path, and every worker is inside a further attempt.
C12_Witness ==
    /\ activeConns = ConnectionsLimit
    /\ nodesDeadCnt >= 1
    /\ \E e \in Endpoints : returned[e] >= 1 /\ failedOf[e] = 0

\* C16: once the peer has reset the connection (every later read fails) the
\* message loop eventually returns and releases the connection (n.Conn is
\* nil again).
C16_ResetEndsDispatcher ==
    \A w \in Workers :
        (conn[w] = "open" /\ connReset[w]) ~> (conn[w] = "nil")

\* C17: a read that fails with the unknown-message error or with any other
\* error that is not end of stream leaves the message loop on the
\* connection and changes no node, registry or channel state; after it a
\* valid message on the same connection can still be dispatched.
C17_ReadErrorKeepsLoop ==
    [][ \A w \in Workers :
          /\ (wpc[w] = "listen" /\ wpc'[w] = "errlog") =>
                /\ conn'[w] = "open"
                /\ UNCHANGED <<registryVars, chanVars, activeConns, wn,
                               wbatch, pingNonce, pingCount>>
          /\ (wpc[w] = "errlog" /\ wpc'[w] # "errlog") =>
                /\ wpc'[w] = "listen"
                /\ conn'[w] = "open"
                /\ UNCHANGED <<registryVars, chanVars, activeConns, wn,
                               wbatch, pingNonce, pingCount>>
          /\ (lastLogged[w] \in ReadErrs /\ wpc[w] = "listen"
                 /\ ~connReset[w]) =>
                ENABLED ListenLogMsg(w, "inv") ]_vars

\* C17 witness: after an unknown-message error on the connection an addr
\* message was read and made into a batch that waits to be submitted.
C17_Witness ==
    \E w \in Workers :
        /\ lastLogged[w] = "unknown"
        /\ wpc[w] = "submit"
        /\ addrMsgs = 1
        /\ wbatch[w] # <<>>

\* C18: handling a version, verack, ping, inv, feefilter, getheaders or any
\* other message that is neither pong nor addr leaves PingNonce, PingCount
\* and the registry unchanged, submits no discovery batch and writes
\* nothing to the peer (no pong answers a ping).
C18_LogOnlyMessagesChangeNothing ==
    [][ \A w \in Workers :
          (lastLogged'[w] \in LogOnlyKinds /\ lastLogged'[w] # lastLogged[w]) =>
              /\ UNCHANGED <<pingNonce, pingCount, registryVars, chanVars,
                             wbatch, peerWrites, conn, activeConns>>
              /\ wpc'[w] = "listen" ]_vars

\* C18 witness: a ping from the peer has been handled while a keepalive
\* ping of the client is outstanding; nothing was written to the peer and
\* the outstanding nonce is still there.
C18_Witness ==
    \E w \in Workers :
        /\ lastLogged[w] = "ping"
        /\ wpc[w] = "listen"
        /\ pingsSent = 1 /\ pingNonce # 0 /\ pingCount = 0
        /\ peerWrites = 0

\* C19: PingCount never exceeds the number of pings sent on the connection:
\* a pong that arrives while no ping is outstanding (PingNonce = 0), also
\* one carrying nonce 0, is not counted.
C19_PingCountAtMostPingsSent == pingCount <= pingsSent

\* Workers held by a connection (being made or live) to endpoint a.
HeldBy(a) == {w \in Workers : wn[w] = a}

\* C13: one peer cannot stop the crawl, whatever it does on its connection
\* (garbage, resets, never closing): while other endpoints wait in the work
\* queue, some worker is not held by that peer and so remains to dequeue
\* and attempt them.
C13_OnePeerCannotHoldAllWorkers ==
    \A a \in Endpoints :
        (\E i \in 1..Len(queueCh) : queueCh[i] # a) =>
            HeldBy(a) # Workers

\* C14: every tick the publisher takes sends exactly one snapshot on the
\* dashboard channel; storage.Save is called in that tick if and only if
\* the good set is non-empty, with the whole current good list; after a
\* save, failed or not, the publisher is back waiting for the next tick.
C14_TickSendsAndSavesIfGood ==
    [][ /\ (upc = "wait" /\ upc' = "send") =>
              /\ ticks' = ticks + 1
              /\ usnap' = Snapshot
        /\ (upc = "send" /\ upc' # "send") =>
              /\ guiCh' = Append(guiCh, usnap)
              /\ snapsSent' = snapsSent + 1
              /\ upc' = "test"
        /\ snapsSent' + (IF upc' = "send" THEN 1 ELSE 0) = ticks'
        /\ (upc = "test" /\ upc' # "test") =>
              /\ upc' \in {"save", "wait"}
              /\ (upc' = "save") <=> (Len(nodesGood) > 0)
        /\ (saved' # saved) <=> (upc = "save" /\ upc' # "save")
        /\ (upc = "save" /\ upc' # "save") =>
              /\ nodesGood # <<>>
              /\ saved' = Append(saved, nodesGood)
              /\ upc' = "wait" ]_vars

\* C14 witness: two ticks were taken, each sent its snapshot; the first
\* save failed, the publisher went on and the second tick saved the good
\* list as it is now.
C14_Witness ==
    /\ ticks = 2 /\ snapsSent = 2
    /\ Len(saved) = 2 /\ saveErrs = 1
    /\ saved[2] = nodesGood /\ Len(nodesGood) = 2
    /\ Len(saved[1]) = 1
    /\ upc = "wait"

\* C15: whatever the interleaving of the feeder with the appends of
\* AddNodes, every endpoint that was put into the discovery queue is in
\* exactly one place of the way to the workers: still in the discovery
\* queue, held by the feeder for its send, in the work queue, or handed to
\* a worker once. None is lost and none is there twice.
C15_FeederHandsEachEndpointOnce ==
    \A e \in nodes :
        ~(lpc = "append" /\ Head(lips) = e) => TimesQueued(e) = 1

Min(a, b) == IF a <= b THEN a ELSE b
LastN(h, n) == SubSeq(h, Len(h) - n + 1, Len(h))

\* The list holds the most recent min(k, L) of the k accepted values h in
\* insertion order, and the mirror, of length L, holds them in its last
\* positions with the newest at the end.
FifoHolds(l, mirror, h) ==
    LET m == Min(Len(h), FifoLimit)
    IN  /\ Len(l) <= FifoLimit
        /\ l = LastN(h, m)
        /\ Len(mirror) = FifoLimit
        /\ \A j \in 1..m : mirror[FifoLimit - m + j] = h[Len(h) - m + j]

\* C20: after any sequence of accepted values the bounded FIFO (queue.add
\* and updateDataList alike) keeps at most L elements in its list, the most
\* recent min(k, L) in insertion order; the mirror slice keeps length L and
\* its last min(k, L) positions hold those values, the newest at index L-1.
C20_FifoKeepsMostRecent ==
    /\ FifoHolds(qList, qData, qHist)
    /\ FifoHolds(mList, mMirror, mHist)

\* C20 witness: both FIFOs have taken more than L values, not all equal, so
\* the oldest were dropped; updateDataList has also skipped a zero value.
C20_Witness ==
    /\ Len(qHist) = FifoLimit + 2
    /\ qHist[1] # qHist[2] /\ qHist[Len(qHist)] # qHist[Len(qHist) - 1]
    /\ Len(mHist) = FifoLimit + 1
    /\ mHist[1] # mHist[Len(mHist)]
    /\ mOffered > Len(mHist)

====
